---- MODULE Spec2Model ----
(***************************************************************************)
(* A model of the ripples composition engine (src/rippleslib/ripples.py).  *)
(*                                                                         *)
(* Durations are counted in hundredths of a beat (Beat = 100), so that the *)
(* duration set {4, 2, 1.5, 1, 0.75, 0.5, 0.25} and the detach amounts     *)
(* {0, 0.01, 0.02} are integers.  Chord durations, which the code keeps in *)
(* beats, are used in the same unit.                                       *)
(*                                                                         *)
(* The shared pseudorandom stream of Python's random module is modelled as *)
(* a small deterministic generator: a state in 0 .. RandomModulus - 1, one *)
(* step per draw, random() read as state / RandomModulus.  seed(s) sets    *)
(* the state from s; seed(None) sets it to a state the model does not      *)
(* know.  Every function of the engine that draws is an operator on an     *)
(* environment record e that carries the stream (e.rng), the log of the    *)
(* operations made on it (e.log), the module and class level state of the  *)
(* engine and the fields of the Piece.                                     *)
(***************************************************************************)
EXTENDS Integers, Sequences, FiniteSets, TLC

VARIABLES
    pc,     \* the position of the operation under way
    env,    \* the random stream, the module and class level state, the Piece
    loc,    \* the arguments and local variables of the operation under way
    obs     \* what has been observed of the calls made so far

vars == <<pc, env, loc, obs>>

(***************************************************************************)
(* Bounds of the model                                                     *)
(***************************************************************************)
\* Note and Chord.spread are tried on pitches from PitchMargin below 0 to
\* PitchMargin above 127.
PitchMargin == 13

\* gen_duration is followed over MaxYields calls.
MaxYields == 5

\* The host passes the seeds 0 .. MaxSeed to generate.
MaxSeed == 2

\* generate is called MaxCalls times by the same process.
MaxCalls == 2

\* create_track is tried on streams of up to MaxItems items.
MaxItems == 3

(***************************************************************************)
(* Helpers on sequences                                                    *)
(***************************************************************************)
Max(a, b) == IF a >= b THEN a ELSE b

Min(a, b) == IF a <= b THEN a ELSE b

\* Python's seq.index(v): the 0-based position of the first v; -1 when absent
\* (where the code raises ValueError).
ListIndex(s, v) ==
    IF \E i \in 1..Len(s) : s[i] = v
    THEN (CHOOSE i \in 1..Len(s) : s[i] = v /\ \A j \in 1..(i - 1) : s[j] # v) - 1
    ELSE 0 - 1

\* list.insert(i, x), for 0 <= i <= len
ListInsert(s, i, x) == SubSeq(s, 1, i) \o <<x>> \o SubSeq(s, i + 1, Len(s))

\* x in s
Contains(s, x) == \E i \in 1..Len(s) : s[i] = x

(***************************************************************************)
(* gm.py: note numbers                                                     *)
(***************************************************************************)
note_template == <<"C", "C#", "D", "D#", "E", "F", "F#", "G", "G#", "A", "A#", "B">>

\* NOTE_CLASS[n]: the list repeats note_template over the octaves -2 .. 8.
NOTE_CLASS(n) == note_template[(n % 12) + 1]

\* NOTE_NUMS[name]: a name is the pair <<class, octave>> for f"{n}_{octave}";
\* -1 when the name is no key of NOTE_NUMS.
NOTE_NUMS(name) ==
    IF /\ Len(name) = 2
       /\ \E i \in 1..12 : note_template[i] = name[1]
       /\ name[2] \in (0 - 2)..8
    THEN (name[2] + 2) * 12 + ListIndex(note_template, name[1])
    ELSE 0 - 1

(***************************************************************************)
(* Note, Rest, Chord                                                       *)
(***************************************************************************)
Beat == 100

\* Note.__init__: the pitch is clamped into 0 .. 127.
Note(pitch, duration, volume) ==
    [kind |-> "Note", pitch |-> Min(Max(pitch, 0), 127),
     duration |-> duration, volume |-> volume]

Rest(duration) == [kind |-> "Rest", duration |-> duration]

Chord(root, quality, inversion, duration, volume) ==
    [kind |-> "Chord", root |-> root, quality |-> quality,
     inversion |-> inversion, duration |-> duration, volume |-> volume]

\* Chord.defs
ChordDefs ==
    [q \in {"M", "m", "d", "sus2", "sus4", "M7", "Mmaj7", "m7", "mmaj7", "d7",
            "dmin7dim5", "M7dim5", "7sus2", "7sus4"} |->
        CASE q = "M" -> <<0, 4, 7>>
          [] q = "m" -> <<0, 3, 7>>
          [] q = "d" -> <<0, 3, 6>>
          [] q = "sus2" -> <<0, 2, 7>>
          [] q = "sus4" -> <<0, 5, 7>>
          [] q = "M7" -> <<0, 4, 7, 10>>
          [] q = "Mmaj7" -> <<0, 4, 7, 11>>
          [] q = "m7" -> <<0, 3, 7, 10>>
          [] q = "mmaj7" -> <<0, 3, 7, 11>>
          [] q = "d7" -> <<0, 3, 6, 9>>
          [] q = "dmin7dim5" -> <<0, 3, 6, 10>>
          [] q = "M7dim5" -> <<0, 4, 6, 10>>
          [] q = "7sus2" -> <<0, 2, 7, 10>>
          [] q = "7sus4" -> <<0, 5, 7, 10>>]

\* Chord.spread, the default clamp window: [NOTE_NUMS["A_1"], NOTE_NUMS["D_3"]]
DefaultClampRange == <<NOTE_NUMS(<<"A", 1>>), NOTE_NUMS(<<"D", 3>>)>>

\* Chord.spread, lines 135-138: one Note per interval of the quality.
ChordNotes(c) ==
    [i \in 1..Len(ChordDefs[c.quality]) |->
        Note(c.root + ChordDefs[c.quality][i], c.duration, c.volume)]

\* Chord.spread, lines 143-148: the inversion raises notes[0], or notes[0] and
\* notes[1], by an octave, in place (the Note constructor is not run again).
InvertFirstOnly(ns, inversion) ==
    [i \in 1..Len(ns) |->
        IF inversion \in {1, 2} /\ i = 1
        THEN [ns[i] EXCEPT !.pitch = @ + 12] ELSE ns[i]]

Invert(ns, inversion) ==
    [i \in 1..Len(ns) |->
        IF (inversion = 1 /\ i = 1) \/ (inversion = 2 /\ i \in {1, 2})
        THEN [ns[i] EXCEPT !.pitch = @ + 12] ELSE ns[i]]

\* Chord.spread, lines 150-155: one octave up when below the window, then one
\* octave down when above it.
ClampNote(n, range) ==
    LET up == IF n.pitch < range[1] THEN n.pitch + 12 ELSE n.pitch
        down == IF up > range[2] THEN up - 12 ELSE up
    IN  [n EXCEPT !.pitch = down]

\* Chord.spread
Spread(c, do_clamp, range) ==
    LET window == IF range = <<>> THEN DefaultClampRange ELSE range
        inverted == Invert(ChordNotes(c), c.inversion)
    IN  [i \in 1..Len(inverted) |->
            IF do_clamp THEN ClampNote(inverted[i], window) ELSE inverted[i]]

(***************************************************************************)
(* The shared random stream (Python's random module)                       *)
(***************************************************************************)
RandomModulus == 256

RandomStates == 0..(RandomModulus - 1)

\* One step of the generator.
RandomStep(x) == (77 * x + 55) % RandomModulus

\* The log of the operations made on the stream: consecutive draws are
\* counted in one entry.
LogDraw(log) ==
    IF log # <<>> /\ log[Len(log)].op = "draw"
    THEN [log EXCEPT ![Len(log)].n = @ + 1]
    ELSE Append(log, [op |-> "draw", n |-> 1])

\* One draw: the stream steps; the value drawn is read from the new state.
Advance(e) == [e EXCEPT !.rng = RandomStep(@), !.log = LogDraw(@)]

\* random.seed(s) with a value, and random.seed(None): the new state is x.
SeedStream(e, s) ==
    [e EXCEPT !.rng = s % RandomModulus, !.log = Append(@, [op |-> "seed", n |-> 0])]

RerandomizeNever(e, x) == e

Rerandomize(e, x) ==
    [e EXCEPT !.rng = x, !.log = Append(@, [op |-> "seed_none", n |-> 0])]

\* floor(random() * n), the index random.choice and random.randint draw.
RandBelow(e, n) == (e.rng * n) \div RandomModulus

\* random.choice(seq), on the stream just advanced.
Choice(e, seq) == seq[RandBelow(e, Len(seq)) + 1]

\* random.randint(a, b)
RandInt(e, a, b) == a + RandBelow(e, b - a + 1)

RECURSIVE CumWeight(_, _)
CumWeight(w, i) == IF i = 0 THEN 0 ELSE w[i] + CumWeight(w, i - 1)

\* random.choices(seq, weights)[0]: bisect(cum_weights, random() * total, 0, n - 1)
Choices(e, seq, weights) ==
    LET total == CumWeight(weights, Len(weights))
        hit == {i \in 1..Len(seq) : CumWeight(weights, i) * RandomModulus > e.rng * total}
    IN  seq[IF hit = {} THEN Len(seq) ELSE CHOOSE i \in hit : \A j \in hit : i <= j]

\* The engine's state before anything has run: the class attributes
\* duration_weights and chord_weights do not exist yet (<<>>), no Piece field
\* is set, gen_duration.buffer is the empty list of line 227.
NewEnv(x) ==
    [rng |-> x, log |-> <<>>, err |-> "none",
     buffer |-> <<>>, duration_weights |-> <<>>, chord_weights |-> <<>>,
     key_root |-> 0, pitches |-> <<>>, beats_per_measure |-> 0,
     default_tempo |-> 0, bass_style |-> "", iv_weights |-> <<>>,
     melodic_contour_strategy |-> <<>>, iv_stack |-> <<>>,
     seed |-> 0 - 1, render_chords |-> TRUE, render_bass |-> TRUE,
     render_melody |-> TRUE]

\* An exception raised in the code: it ends the call under way, so every
\* later step of the call leaves the environment as it is.
Raise(e, exception) == IF e.err = "none" THEN [e EXCEPT !.err = exception] ELSE e

(***************************************************************************)
(* NoteDurationStrategy and gen_duration                                   *)
(***************************************************************************)
\* NoteDurationStrategy.durations
durations == <<4 * Beat, 2 * Beat, Beat + Beat \div 2, Beat, Beat \div 2 + Beat \div 4,
               Beat \div 2, Beat \div 4>>

\* NoteDurationStrategy.possible_weights, in the order of its keys
possible_weights ==
    <<[name |-> "balanced", weights |-> <<5, 10, 5, 50, 10, 50, 20>>],
      [name |-> "long_leaning", weights |-> <<80, 80, 10, 10, 10, 10, 10>>],
      [name |-> "brisk_leaning", weights |-> <<5, 5, 10, 10, 10, 80, 80>>]>>

\* NoteDurationStrategy.select_duration_profile
select_duration_profile(e) ==
    LET e1 == Advance(e)
        selected == Choice(e1, possible_weights)
    IN  [env |-> [e1 EXCEPT !.duration_weights = selected.weights],
         ret |-> selected.name]

\* NoteDurationStrategy.get_duration
get_duration(e) ==
    LET e1 == Advance(e)
    IN  [env |-> e1, ret |-> Choices(e1, durations, e1.duration_weights)]

\* gen_duration, lines 211-216: a fresh 8th or 16th starts a run when the
\* buffer is empty.
StartsRunAlways(duration, buffer) == duration \in {Beat \div 2, Beat \div 4}

StartsRun(duration, buffer) ==
    duration \in {Beat \div 2, Beat \div 4} /\ Len(buffer) = 0

\* gen_duration (one next(gen_duration()): the body up to its first yield)
gen_duration(e) ==
    LET d == get_duration(e)
        duration == d.ret
        e1 == d.env
        e2 == IF StartsRun(duration, e1.buffer) THEN Advance(e1) ELSE e1
        filled ==
            IF StartsRun(duration, e1.buffer)
            THEN IF Choice(e2, <<TRUE, FALSE>>)
                 THEN <<duration, duration, duration, duration>>
                 ELSE <<duration, duration>>
            ELSE e1.buffer
    IN  IF Len(filled) > 0
        THEN [env |-> [e2 EXCEPT !.buffer = SubSeq(filled, 1, Len(filled) - 1)],
              ret |-> filled[Len(filled)], drawn |-> duration]
        ELSE [env |-> e2, ret |-> duration, drawn |-> duration]

(***************************************************************************)
(* ChordStrategy                                                           *)
(***************************************************************************)
\* ChordStrategy.chord_choices: (root_shift, quality)
chord_choices ==
    <<<<0, "M">>, <<0, "sus2">>, <<0, "sus4">>, <<2, "m">>, <<2, "sus2">>,
      <<2, "sus4">>, <<4, "m">>, <<5, "M">>, <<5, "sus2">>, <<7, "M">>,
      <<7, "sus2">>, <<7, "sus4">>, <<9, "m">>, <<9, "sus2">>, <<9, "sus4">>,
      <<11, "d">>>>

\* ChordStrategy.chord_weight_profiles
chord_weight_profiles ==
    <<<<50, 0, 0, 30, 0, 0, 30, 50, 0, 50, 0, 0, 30, 0, 0, 1>>,
      <<50, 5, 5, 30, 5, 5, 30, 50, 5, 50, 5, 5, 30, 5, 5, 1>>,
      <<50, 10, 10, 40, 10, 10, 40, 30, 10, 30, 10, 10, 40, 10, 10, 1>>,
      <<10, 5, 5, 10, 5, 5, 10, 10, 5, 10, 5, 5, 10, 5, 5, 2>>>>

\* ChordStrategy.select_chord_profile
select_chord_profile(e) ==
    LET e1 == Advance(e)
    IN  [e1 EXCEPT !.chord_weights = Choice(e1, chord_weight_profiles)]

\* ChordStrategy.get_chord, lines 285-297: the quality of the seventh chord.
SeventhAppended(root_shift, quality) == quality \o "7"

SeventhQuality(root_shift, quality) ==
    IF quality = "M" /\ root_shift # 7 THEN quality \o "maj7"
    ELSE IF quality = "d" THEN quality \o "min7dim5"
    ELSE IF quality \in {"sus2", "sus4"}
         THEN IF \/ (quality = "sus2" /\ root_shift \in {2, 7, 9})
                 \/ (quality = "sus4" /\ root_shift \in {2, 4, 5, 9})
              THEN "7" \o quality
              ELSE quality
    ELSE quality \o "7"

\* ChordStrategy.get_chord, lines 280-281: the override replaces the pick by
\* the first chord choice.
ForceTonicNever(pick, override_use_root) == pick

ForceTonic(pick, override_use_root) ==
    IF override_use_root THEN chord_choices[1] ELSE pick

\* ChordStrategy.get_chord, lines 278-302: what is returned when the draws
\* gave the pick, the seventh flag and the inversion.
ChordOf(pick, override_use_root, seventh, inversion) ==
    LET used == ForceTonic(pick, override_use_root)
    IN  [root_shift |-> used[1],
         quality |-> IF seventh THEN SeventhQuality(used[1], used[2]) ELSE used[2],
         inversion |-> inversion]

\* ChordStrategy.get_chord
get_chord(e, override_use_root) ==
    LET e1 == Advance(e)
        pick == Choices(e1, chord_choices, e1.chord_weights)
        e2 == Advance(e1)
        seventh == Choices(e2, <<TRUE, FALSE>>, <<20, 80>>)
        e3 == Advance(e2)
    IN  [env |-> e3,
         ret |-> ChordOf(pick, override_use_root, seventh, Choice(e3, <<0, 1, 2>>))]

(***************************************************************************)
(* get_pitches                                                             *)
(***************************************************************************)
\* get_pitches, key_templates
key_templates ==
    [k \in {note_template[i] : i \in 1..12} |->
        CASE k = "C" -> <<0, 2, 4, 5, 7, 9, 11>>
          [] k = "C#" -> <<0, 1, 3, 5, 6, 8, 10>>
          [] k = "D" -> <<1, 2, 4, 6, 7, 9, 11>>
          [] k = "D#" -> <<0, 2, 3, 5, 7, 8, 10>>
          [] k = "E" -> <<1, 3, 4, 6, 8, 9, 11>>
          [] k = "F" -> <<0, 2, 4, 5, 7, 9, 10>>
          [] k = "F#" -> <<1, 3, 5, 6, 8, 10, 11>>
          [] k = "G" -> <<0, 2, 4, 6, 7, 9, 11>>
          [] k = "G#" -> <<0, 1, 3, 5, 7, 8, 10>>
          [] k = "A" -> <<1, 2, 4, 6, 8, 9, 11>>
          [] k = "A#" -> <<0, 2, 3, 5, 7, 9, 10>>
          [] k = "B" -> <<1, 3, 4, 6, 8, 10, 11>>]

\* get_pitches: the template of the root's class, repeated from each
\* octave_note of range(0, 8 * 12 + 1, 12).
PitchesOfC(root) ==
    [i \in 1..(9 * 7) |-> ((i - 1) \div 7) * 12 + key_templates["C"][((i - 1) % 7) + 1]]

get_pitches(root) ==
    LET key_template == key_templates[NOTE_CLASS(root)]
    IN  [i \in 1..(9 * 7) |-> ((i - 1) \div 7) * 12 + key_template[((i - 1) % 7) + 1]]

(***************************************************************************)
(* Piece.generate_chords                                                   *)
(***************************************************************************)
\* Lines 537-544: the split table; no entry for other meters.
SplitTable(beats) ==
    CASE beats = 4 -> <<<<2, 2>>>>
      [] beats = 5 -> <<<<3, 2>>, <<2, 3>>>>
      [] beats = 6 -> <<<<3, 3>>, <<4, 2>>, <<2, 4>>>>
      [] beats = 7 -> <<<<3, 4>>, <<4, 3>>, <<2, 2, 3>>, <<3, 2, 2>>>>
      [] OTHER -> <<>>

\* Lines 530-544: the sub-measures of one measure, in beats.
SubMeasures(e) ==
    IF e.beats_per_measure > 3
    THEN LET e1 == Advance(e)
             table == SplitTable(e.beats_per_measure)
         IN  IF Choices(e1, <<TRUE, FALSE>>, <<10, 90>>)
             THEN IF Len(table) = 0
                  THEN [env |-> e1, ret |-> <<e.beats_per_measure>>]
                  ELSE IF Len(table) = 1
                       THEN [env |-> e1, ret |-> table[1]]
                       ELSE LET e2 == Advance(e1)
                            IN  [env |-> e2, ret |-> Choice(e2, table)]
             ELSE [env |-> e1, ret |-> <<e.beats_per_measure>>]
    ELSE [env |-> e, ret |-> <<e.beats_per_measure>>]

\* Lines 546-562: one chord per sub-measure.
RECURSIVE MeasureChords(_, _, _, _)
MeasureChords(e, sub_measures, first_chord, chords) ==
    IF sub_measures = <<>>
    THEN [env |-> e, ret |-> chords, first_chord |-> first_chord]
    ELSE LET c == get_chord(e, first_chord)
         IN  MeasureChords(c.env, Tail(sub_measures), FALSE,
                Append(chords,
                       Chord(e.key_root + c.ret.root_shift, c.ret.quality,
                             c.ret.inversion, Head(sub_measures) * Beat, 80)))

\* Lines 529-562: the loop over the measures.
RECURSIVE ChordsLoop(_, _, _, _)
ChordsLoop(e, measures, first_chord, chords) ==
    IF measures = 0
    THEN [env |-> e, ret |-> chords]
    ELSE LET sub == SubMeasures(e)
             m == MeasureChords(sub.env, sub.ret, first_chord, chords)
         IN  ChordsLoop(m.env, measures - 1, m.first_chord, m.ret)

\* Piece.generate_chords
generate_chords(e, measures, first_section) ==
    ChordsLoop(e, measures, first_section, <<>>)

(***************************************************************************)
(* Piece.generate_bass                                                     *)
(***************************************************************************)
\* Lines 572-587: the notes of one chord.
BassNotesSimple(bass_style, c) == <<Note(c.root - 12, c.duration, 80)>>

BassNotes(bass_style, c) ==
    LET pitch == c.root - 12
    IN  IF bass_style = "marching"
        THEN [i \in 1..(c.duration \div Beat) |-> Note(pitch, Beat, 80)]
        ELSE IF bass_style = "marco"
             THEN <<Note(pitch, c.duration - Beat, 80), Note(pitch, Beat, 80)>>
             ELSE <<Note(pitch, c.duration, 80)>>

\* Piece.generate_bass
RECURSIVE generate_bass(_, _)
generate_bass(bass_style, chords) ==
    IF chords = <<>> THEN <<>>
    ELSE BassNotes(bass_style, Head(chords)) \o generate_bass(bass_style, Tail(chords))

(***************************************************************************)
(* Piece.generate_melody and Piece.generate_motive                         *)
(***************************************************************************)
\* Line 596
interval_deltas == <<0, 1, 2, 3, 4, 5>>

\* Lines 597-601
iv_weights_profiles ==
    <<<<90, 80, 0, 0, 0, 0>>, <<10, 10, 10, 10, 10, 10>>, <<90, 50, 50, 5, 5, 10>>>>

\* Line 608
contour_strategies == <<<<100, 0>>, <<50, 50>>, <<20, 80>>>>

\* Lines 640-641
min_pitch == NOTE_NUMS(<<"C", 2>>)

max_pitch == NOTE_NUMS(<<"C", 5>>)

\* seq[i] with a Python index: i counts from the end when negative.
PyValid(seq, i) == i >= 0 - Len(seq) /\ i < Len(seq)

PyGet(seq, i) == IF i >= 0 THEN seq[i + 1] ELSE seq[Len(seq) + i + 1]

\* gm.NOTE_NAMES[pitch], evaluated for the debug log: the list has 132 names.
NameKnown(pitch) == pitch >= 0 - 132 /\ pitch < 132

\* self.pitches.append(pitch); self.pitches.sort(), on the sorted list.
InsertSorted(pitches, pitch) ==
    LET below == Cardinality({i \in 1..Len(pitches) : pitches[i] < pitch})
    IN  SubSeq(pitches, 1, below) \o <<pitch>> \o SubSeq(pitches, below + 1, Len(pitches))

\* Lines 647-653 and 716-723: the index of a pitch, inserted as an accidental
\* when it is not in the list.
Resolve(e, pitch) ==
    IF Contains(e.pitches, pitch)
    THEN [env |-> e, ret |-> ListIndex(e.pitches, pitch)]
    ELSE LET added == InsertSorted(e.pitches, pitch)
         IN  [env |-> [e EXCEPT !.pitches = added], ret |-> ListIndex(added, pitch)]

\* Lines 637-659: the start of a motive.
MotiveStart(e, c, use_stack) ==
    LET e1 == Advance(e)
        pitch == Choice(e1, Spread(c, TRUE, <<>>)).pitch + 12
        r == Resolve(e1, pitch)
    IN  [env |-> IF NameKnown(pitch) THEN r.env ELSE Raise(r.env, "IndexError"),
         ms |-> [index |-> r.ret, pitch |-> pitch, notes_data |-> <<>>, time |-> 0,
                 first_note |-> TRUE, use_stack |-> use_stack]]

\* Lines 700-707: a pitch above max_pitch is taken an octave down, a pitch
\* below min_pitch an octave up, and looked up again with list.index.
RangeDiscipline(e, index, pitch) ==
    LET moved == IF pitch > max_pitch THEN pitch - 12
                 ELSE IF pitch < min_pitch THEN pitch + 12 ELSE pitch
    IN  IF moved = pitch
        THEN [env |-> e, index |-> index, pitch |-> pitch]
        ELSE IF Contains(e.pitches, moved)
             THEN [env |-> e, index |-> ListIndex(e.pitches, moved), pitch |-> moved]
             ELSE [env |-> Raise(e, "ValueError"), index |-> index, pitch |-> moved]

\* Lines 681-710: the next pitch by an interval along the scale; from_stack
\* says the interval is popped from iv_stack.
PitchByInterval(e, ms, from_stack) ==
    LET e1 == IF from_stack THEN e ELSE Advance(e)
        magnitude == Choices(e1, interval_deltas, e1.iv_weights)
        e2 == IF from_stack THEN e ELSE Advance(e1)
        interval == IF from_stack THEN Head(e.iv_stack)
                    ELSE IF Choice(e2, <<FALSE, TRUE>>) THEN 0 - magnitude
                    ELSE magnitude
        e3 == IF from_stack THEN [e2 EXCEPT !.iv_stack = Tail(@)] ELSE e2
        index == ms.index + interval
    IN  IF from_stack /\ ~PyValid(e.pitches, ms.index)
        THEN [env |-> Raise(e3, "IndexError"), ms |-> ms]
        ELSE IF ~PyValid(e.pitches, index)
        THEN [env |-> Raise(e3, "IndexError"), ms |-> [ms EXCEPT !.index = index]]
        ELSE LET d == RangeDiscipline(e3, index, PyGet(e.pitches, index))
             IN  [env |-> IF d.env.err = "none" /\ ~ms.use_stack
                          THEN [d.env EXCEPT !.iv_stack = Append(@, interval)]
                          ELSE d.env,
                  ms |-> [ms EXCEPT !.index = d.index, !.pitch = d.pitch]]

\* Lines 712-726: the next pitch from the chord, an octave above.
PitchFromChord(e, ms, c) ==
    LET e1 == Advance(e)
        pitch == Choice(e1, Spread(c, TRUE, <<>>)).pitch + 12
        r == Resolve(e1, pitch)
    IN  IF ~NameKnown(pitch)
        THEN [env |-> Raise(e1, "IndexError"), ms |-> [ms EXCEPT !.pitch = pitch]]
        ELSE [env |-> IF ms.use_stack THEN r.env
                      ELSE [r.env EXCEPT !.iv_stack = Append(@, r.ret - ms.index)],
              ms |-> [ms EXCEPT !.index = r.ret, !.pitch = pitch]]

\* Line 729: the note is appended, unless the lookup of its pitch raised.
AppendNote(r, duration) ==
    IF r.env.err # "none"
    THEN r
    ELSE [env |-> r.env,
          ms |-> [r.ms EXCEPT !.notes_data = Append(@, Note(r.ms.pitch, duration, 100))]]

\* Lines 671-729: a note after the first one.
NextNote(e, ms, c, duration) ==
    LET from_stack == ms.use_stack /\ Len(e.iv_stack) > 0
        e1 == IF from_stack THEN e ELSE Advance(e)
        by_interval == from_stack
                       \/ Choices(e1, <<TRUE, FALSE>>, e1.melodic_contour_strategy)
        ms1 == [ms EXCEPT !.use_stack = from_stack]
    IN  AppendNote(IF by_interval THEN PitchByInterval(e1, ms1, from_stack)
                   ELSE PitchFromChord(e1, ms1, c),
                   duration)

\* Line 735
AddTime(r, duration) ==
    IF r.env.err # "none" THEN r ELSE [env |-> r.env, ms |-> [r.ms EXCEPT !.time = @ + duration]]

\* Lines 664-735: the event of the duration just chosen.
DurationEvent(e, ms, c, duration) ==
    IF ms.first_note
    THEN [env |-> e,
          ms |-> [ms EXCEPT !.notes_data = Append(@, Note(ms.pitch, duration, 100)),
                            !.time = @ + duration, !.first_note = FALSE]]
    ELSE LET e1 == Advance(e)
         IN  AddTime(IF Choices(e1, <<TRUE, FALSE>>, <<100, 10>>)
                     THEN NextNote(e1, ms, c, duration)
                     ELSE [env |-> e1,
                           ms |-> [ms EXCEPT !.notes_data = Append(@, Rest(duration))]],
                     duration)

\* Lines 660-735: one pass of the while loop.
MotiveEvent(e, ms, c) ==
    LET g == gen_duration(e)
    IN  DurationEvent(g.env, ms, c, g.ret)

\* Lines 660-735: the while loop, from the motive s under way.
RECURSIVE MotiveLoop(_, _, _)
MotiveLoop(s, c, max_time) ==
    IF s.env.err # "none" \/ s.ms.time >= max_time
    THEN s
    ELSE MotiveLoop(MotiveEvent(s.env, s.ms, c), c, max_time)

\* Line 738
MotiveReturn(s) == [env |-> s.env, ret |-> s.ms.notes_data]

\* Piece.generate_motive
generate_motive(e, c, length, use_stack) ==
    MotiveReturn(MotiveLoop(MotiveStart(e, c, use_stack), c, length))

RECURSIVE SumDurations(_)
SumDurations(items) ==
    IF items = <<>> THEN 0 ELSE Head(items).duration + SumDurations(Tail(items))

\* Piece.generate_melody, lines 621-625: the last event is cut to end at the
\* chord's end.
TrimNever(motive, chord_duration) == motive

TrimMotive(motive, chord_duration) ==
    IF SumDurations(motive) > chord_duration
    THEN [motive EXCEPT ![Len(motive)].duration =
            chord_duration - SumDurations(SubSeq(motive, 1, Len(motive) - 1))]
    ELSE motive

\* Piece.generate_melody, line 618: the motive reuses the stack when it holds
\* more than 4 intervals.
UseStackAny(e) == Len(e.iv_stack) > 0

UseStack(e) == Len(e.iv_stack) > 4

\* Lines 664-681: the branch a pass of the while loop takes from e with the
\* motive state ms: the first note, a rest, a note by an interval popped from
\* the stack, a note by a fresh interval, or a note from the chord.
PassKind(e, ms) ==
    LET e1 == Advance(gen_duration(e).env)
        e2 == Advance(e1)
    IN  IF ms.first_note THEN "start"
        ELSE IF ~Choices(e1, <<TRUE, FALSE>>, <<100, 10>>) THEN "rest"
        ELSE IF ms.use_stack /\ Len(e.iv_stack) > 0 THEN "stack"
        ELSE IF Choices(e2, <<TRUE, FALSE>>, e2.melodic_contour_strategy)
             THEN "interval"
             ELSE "chord"

\* Piece.generate_melody, lines 602-613: the section's weights, contour
\* strategy and empty interval stack.
MelodyStart(e) ==
    LET e1 == Advance(e)
        e2 == Advance(e1)
    IN  [e2 EXCEPT !.iv_weights = Choice(e1, iv_weights_profiles),
                   !.melodic_contour_strategy = Choice(e2, contour_strategies),
                   !.iv_stack = <<>>]

(***************************************************************************)
(* Piece.generate_structure, lines 479-491: the label pattern              *)
(***************************************************************************)
possible_sections == <<"a", "b", "c">>

\* Lines 485-486 and 487-488: a label still absent from the pattern is
\* inserted at random.randint(1, len(pattern)).
InsertNever(r, label) == r

InsertIfAbsent(r, label) ==
    IF Contains(r.ret, label)
    THEN r
    ELSE LET e1 == Advance(r.env)
         IN  [env |-> e1,
              ret |-> ListInsert(r.ret, RandInt(e1, 1, Len(r.ret)), label)]

\* Lines 483-488: one iteration of the loop.
PatternIteration(e, pattern) ==
    LET e1 == Advance(e)
        appended == Append(pattern, Choice(e1, possible_sections))
    IN  InsertIfAbsent(InsertIfAbsent([env |-> e1, ret |-> appended], "b"), "c")

RECURSIVE PatternLoop(_, _, _)
PatternLoop(e, pattern, n) ==
    IF n = 0
    THEN [env |-> e, ret |-> pattern]
    ELSE LET r == PatternIteration(e, pattern)
         IN  PatternLoop(r.env, r.ret, n - 1)

\* Lines 490-491: the only_one override.
FinishPattern(pattern, only_one) == IF only_one THEN <<"a">> ELSE pattern

\* Lines 481-491
BuildPattern(e, only_one) ==
    LET e1 == Advance(e)
        r == PatternLoop(e1, <<"a">>, RandInt(e1, 2, 6))
    IN  [env |-> r.env, ret |-> FinishPattern(r.ret, only_one)]

(***************************************************************************)
(* Piece.generate_structure, lines 464-477 and 496-519                     *)
(***************************************************************************)
\* Lines 472-473: a progression of fewer than 5 measures is doubled.
SectionChordsOnce(g, measures) ==
    [env |-> g.env, measures |-> measures, chords |-> g.ret]

SectionChords(g, measures) ==
    [env |-> g.env, measures |-> measures,
     chords |-> IF measures < 5 THEN g.ret \o g.ret ELSE g.ret]

\* The stream and the measure count generate_chords gets for the section
\* about to begin (lines 466-468).
SectionEntry(e) ==
    LET e1 == Advance(select_chord_profile(e))
    IN  [env |-> e1, measures |-> Choice(e1, <<2, 3, 4, 8>>)]

\* Lines 466-475: the chords of a section.
SectionStart(e, first_section) ==
    LET e1 == Advance(select_chord_profile(e))
        measures == Choice(e1, <<2, 3, 4, 8>>)
    IN  SectionChords(generate_chords(e1, measures, first_section), measures)

\* Lines 496-503: the sections' streams laid out along the pattern.
RECURSIVE Materialize(_, _)
Materialize(sections, pattern) ==
    IF pattern = <<>>
    THEN [chords |-> <<>>, bass |-> <<>>, melody |-> <<>>]
    ELSE LET s == sections[ListIndex(possible_sections, Head(pattern)) + 1]
             rest == Materialize(sections, Tail(pattern))
         IN  [chords |-> s.chords \o rest.chords, bass |-> s.bass \o rest.bass,
              melody |-> s.melody \o rest.melody]

\* Line 508: the bass note of the ending.
EndingBassMeasure(e) == Note(e.key_root - 12, e.beats_per_measure * Beat, 80)

EndingBass(e) == Note(e.key_root - 12, Beat, 80)

\* Lines 505-515: the ending.
Ending(e, structure) ==
    LET chord == Chord(e.key_root, "M", 0, e.beats_per_measure * Beat, 80)
        e1 == Advance(e)
        pitch == Choice(e1, Spread(chord, TRUE, <<>>)).pitch + 12
    IN  [env |-> e1,
         ret |-> [chords |-> Append(structure.chords, chord),
                  bass |-> Append(structure.bass, EndingBass(e)),
                  melody |-> Append(structure.melody,
                                    Note(pitch, e.beats_per_measure * Beat, 100))]]

(***************************************************************************)
(* Piece.create_track                                                      *)
(***************************************************************************)
\* The local midi of generate before any assignment, and MIDIFile(n).
NoMidi == [bound |-> FALSE, track_count |-> 0, tracks |-> <<>>]

MIDIFile(track_count) == [bound |-> TRUE, track_count |-> track_count, tracks |-> <<>>]

\* Line 771: the amounts [0, 0.01, 0.02], in hundredths of a beat.
detach_amounts == <<0, 1, 2>>

\* Lines 765-773
AddNoteAtZero(e, events, onset_time, note) ==
    [env |-> Advance(e),
     ret |-> Append(events,
                    [kind |-> "note", pitch |-> note.pitch, onset |-> 0,
                     duration |-> note.duration, volume |-> note.volume])]

add_note(e, events, onset_time, note) ==
    LET e1 == Advance(e)
    IN  [env |-> e1,
         ret |-> Append(events,
                        [kind |-> "note", pitch |-> note.pitch, onset |-> onset_time,
                         duration |-> note.duration - Choice(e1, detach_amounts),
                         volume |-> note.volume])]

\* Lines 785-786
RECURSIVE AddNotes(_, _, _, _)
AddNotes(e, events, onset_time, notes) ==
    IF notes = <<>>
    THEN [env |-> e, ret |-> events]
    ELSE LET r == add_note(e, events, onset_time, Head(notes))
         IN  AddNotes(r.env, r.ret, onset_time, Tail(notes))

\* Lines 777-786: the events of one item.
TrackItem(e, onset_time, item) ==
    IF item.kind = "Rest"
    THEN [env |-> e, ret |-> <<>>]
    ELSE IF item.kind = "Note"
         THEN add_note(e, <<>>, onset_time, item)
         ELSE AddNotes(e, <<[kind |-> "text", onset |-> onset_time,
                             text |-> <<NOTE_CLASS(item.root), item.quality>>]>>,
                       onset_time, Spread(item, TRUE, <<>>))

\* The events of two consecutive ranges of items.
JoinEvents(left, right) ==
    [env |-> right.env, ret |-> left.ret \o right.ret, onset_time |-> right.onset_time]

\* Lines 775-789: the events of the items lo .. hi of notes_data, in order; the
\* range is walked by halves, the first half before the second.
RECURSIVE TrackItems(_, _, _, _, _)
TrackItems(e, onset_time, notes_data, lo, hi) ==
    IF lo > hi
    THEN [env |-> e, ret |-> <<>>, onset_time |-> onset_time]
    ELSE IF lo = hi
         THEN LET r == TrackItem(e, onset_time, notes_data[lo])
              IN  [env |-> r.env, ret |-> r.ret,
                   onset_time |-> onset_time + notes_data[lo].duration]
         ELSE LET mid == (lo + hi) \div 2
                  left == TrackItems(e, onset_time, notes_data, lo, mid)
              IN  IF left.env.err # "none"
                  THEN left
                  ELSE JoinEvents(left, TrackItems(left.env, left.onset_time,
                                                   notes_data, mid + 1, hi))

\* Piece.create_track; midi = NoMidi stands for the default midi=None.
create_track(e, meta_data, notes_data, midi) ==
    LET file == IF midi.bound THEN midi ELSE MIDIFile(4)
        r == TrackItems(e, 0, notes_data, 1, Len(notes_data))
    IN  [env |-> r.env,
         ret |-> [file EXCEPT !.tracks =
                    Append(@, [track |-> meta_data.track, channel |-> meta_data.channel,
                               name |-> meta_data.name, tempo |-> e.default_tempo,
                               instrument |-> meta_data.instrument,
                               numerator |-> e.beats_per_measure,
                               events |-> r.ret])]]

(***************************************************************************)
(* Piece.generate                                                          *)
(***************************************************************************)
\* gm.ALL_LEAD_LIKE_SET, gm.ALL_ACCOMPANIMENT_SET, gm.BASS_SET
ALL_LEAD_LIKE_SET ==
    [i \in 1..80 |-> IF i <= 32 THEN i - 1
                     ELSE IF i <= 40 THEN i + 7
                     ELSE IF i <= 72 THEN i + 15 ELSE i + 31]

ALL_ACCOMPANIMENT_SET ==
    [i \in 1..24 |-> IF i <= 8 THEN i + 15 ELSE IF i <= 16 THEN i + 39 ELSE i + 71]

BASS_SET == [i \in 1..8 |-> i + 31]

\* Lines 14-15
MIN_TEMPO == 90

MAX_TEMPO == 124

\* Lines 380-392
key_choices ==
    <<<<"C", 2>>, <<"C#", 2>>, <<"D", 2>>, <<"D#", 2>>, <<"E", 2>>, <<"F", 2>>,
      <<"G", 2>>, <<"G#", 2>>, <<"A", 2>>, <<"A#", 2>>, <<"B", 2>>>>

\* Lines 368-370: the three instruments.
Instruments(e) ==
    LET e1 == Advance(e)
        e2 == Advance(e1)
        e3 == Advance(e2)
    IN  [env |-> e3,
         ret |-> <<Choice(e1, ALL_LEAD_LIKE_SET), Choice(e2, ALL_ACCOMPANIMENT_SET),
                   Choice(e3, BASS_SET)>>]

\* Lines 379-416: key, beats per measure, tempo, duration profile, bass style.
\* in_key = <<>> and in_beats = 0 stand for None.
Parameters(e, in_key, in_beats) ==
    LET e1 == Advance(e)
        key == IF in_key # <<>> THEN in_key ELSE Choice(e1, key_choices)
        key_root == IF NOTE_NUMS(key) >= 0 THEN NOTE_NUMS(key) ELSE NOTE_NUMS(<<"C", 2>>)
        e2 == Advance(e1)
        beats == IF in_beats # 0 THEN in_beats ELSE Choice(e2, <<2, 3, 4, 5, 6, 7>>)
        e3 == Advance(e2)
        e4 == Advance(select_duration_profile(e3).env)
    IN  [e4 EXCEPT !.key_root = key_root, !.pitches = get_pitches(key_root),
                   !.beats_per_measure = beats,
                   !.default_tempo = RandInt(e3, MIN_TEMPO, MAX_TEMPO),
                   !.bass_style = Choice(e4, <<"simple", "marco", "marching">>)]

(***************************************************************************)
(* SpecSpread: Note() and Chord.spread on their own                        *)
(***************************************************************************)
NoChord == [kind |-> "None"]

PitchArgs == (0 - PitchMargin)..(127 + PitchMargin)

\* Clamp windows tried: None (the default) and two other windows.
ClampRanges == {<<>>, <<36, 60>>, <<60, 72>>}

InitSpread ==
    /\ pc = "call"
    /\ env = NewEnv(0)
    /\ loc = [chord |-> NoChord, clamp |-> FALSE, clamp_range |-> <<>>, notes |-> <<>>]
    /\ obs = <<>>

\* Note(pitch)
NoteCall ==
    /\ pc = "call"
    /\ \E p \in PitchArgs :
        loc' = [loc EXCEPT !.notes = <<Note(p, Beat, 100)>>]
    /\ pc' = "note_done"
    /\ UNCHANGED <<env, obs>>

\* Chord(root, quality, inversion).spread(clamp, clamp_range)
SpreadCall ==
    /\ pc = "call"
    /\ \E root \in 0..(127 + PitchMargin), quality \in DOMAIN ChordDefs,
          inversion \in 0..2, do_clamp \in BOOLEAN, range \in ClampRanges :
        LET c == Chord(root, quality, inversion, 4 * Beat, 80)
        IN  loc' = [chord |-> c, clamp |-> do_clamp, clamp_range |-> range,
                    notes |-> Spread(c, do_clamp, range)]
    /\ pc' = "spread_done"
    /\ UNCHANGED <<env, obs>>

NextSpread == NoteCall \/ SpreadCall

SpecSpread == InitSpread /\ [][NextSpread]_vars

(***************************************************************************)
(* Claims on Note and Chord.spread                                         *)
(***************************************************************************)
\* C4: every produced Note has 0 <= pitch <= 127: a constructed Note and every
\* Note that Chord.spread returns, for any root, quality, inversion and clamp
\* flag.
C4_PitchBound ==
    pc \in {"note_done", "spread_done"} =>
        \A i \in 1..Len(loc.notes) :
            loc.notes[i].pitch >= 0 /\ loc.notes[i].pitch <= 127

C6_SpreadAsStated ==
    (pc = "spread_done" /\ ~loc.clamp) =>
        /\ Len(loc.notes) = Len(ChordDefs[loc.chord.quality])
        /\ \A i \in 1..Len(loc.notes) :
            /\ loc.notes[i].pitch =
                    loc.chord.root + ChordDefs[loc.chord.quality][i]
                    + (IF i <= loc.chord.inversion THEN 12 ELSE 0)
            /\ loc.notes[i].duration = loc.chord.duration
            /\ loc.notes[i].volume = loc.chord.volume

\* C6 amended: as above, with root + interval first clamped into 0 .. 127 by
\* the Note constructor, and the inversion's 12 added to the clamped pitch.
C6_SpreadClamped ==
    (pc = "spread_done" /\ ~loc.clamp) =>
        /\ Len(loc.notes) = Len(ChordDefs[loc.chord.quality])
        /\ \A i \in 1..Len(loc.notes) :
            /\ loc.notes[i].pitch =
                    Min(Max(loc.chord.root + ChordDefs[loc.chord.quality][i], 0), 127)
                    + (IF i <= loc.chord.inversion THEN 12 ELSE 0)
            /\ loc.notes[i].duration = loc.chord.duration
            /\ loc.notes[i].volume = loc.chord.volume

\* C6 witness: the major chord at 48 in second inversion spreads to 60, 64, 55.
C6_Witness ==
    /\ pc = "spread_done"
    /\ ~loc.clamp
    /\ loc.chord.root = 48 /\ loc.chord.quality = "M" /\ loc.chord.inversion = 2
    /\ [i \in 1..Len(loc.notes) |-> loc.notes[i].pitch] = <<60, 64, 55>>

(***************************************************************************)
(* SpecDuration: gen_duration called again and again after a profile was  *)
(* selected.  The draws the host makes between two calls are not fixed     *)
(* here: each call starts from any state of the stream.  obs.yielded is    *)
(* the last call: what it drew, what it returned, the buffer's length      *)
(* before and after.  obs.run follows the run under way: the value that    *)
(* started it, its length in calls, and how many of them were made.        *)
(***************************************************************************)
NoRun == [value |-> 0, total |-> 0, count |-> 0]

InitDuration ==
    /\ pc = "select"
    /\ env = NewEnv(0)
    /\ loc = <<>>
    /\ obs = [yielded |-> <<>>, run |-> NoRun, calls |-> 0]

\* The stream and its log as they are in e, everything else as in f.
KeepStream(e, f) == [f EXCEPT !.rng = e.rng, !.log = e.log]

\* NoteDurationStrategy.select_duration_profile()
SelectProfileCall ==
    /\ pc = "select"
    /\ \E x \in RandomStates :
        env' = KeepStream(env, select_duration_profile([env EXCEPT !.rng = x]).env)
    /\ pc' = "yield"
    /\ UNCHANGED <<loc, obs>>

\* next(gen_duration())
GenDurationCall ==
    /\ pc = "yield"
    /\ obs.calls < MaxYields
    /\ \E x \in RandomStates :
       LET r == gen_duration([env EXCEPT !.rng = x])
           short == r.drawn \in {Beat \div 2, Beat \div 4}
       IN  /\ env' = KeepStream(env, r.env)
           /\ obs' = [yielded |-> <<[drawn |-> r.drawn, value |-> r.ret,
                                     before |-> Len(env.buffer),
                                     after |-> Len(r.env.buffer)]>>,
                      run |-> IF obs.run.count < obs.run.total
                              THEN [obs.run EXCEPT !.count = @ + 1]
                              ELSE IF short
                                   THEN [value |-> r.drawn,
                                         total |-> Len(r.env.buffer) + 1,
                                         count |-> 1]
                                   ELSE NoRun,
                      calls |-> obs.calls + 1]
    /\ UNCHANGED <<pc, loc>>

NextDuration == SelectProfileCall \/ GenDurationCall

SpecDuration == InitDuration /\ [][NextDuration]_vars

\* C7: a call that draws 0.5 or 0.25 with the buffer empty starts a run of 2 or
\* 4 calls in total that all return that value, whatever they draw; the
\* buffer is empty again after the last call of the run, and a call outside
\* a run finds the buffer empty and returns its own draw.
C7_RunGrouping ==
    (pc = "yield" /\ obs.yielded # <<>>) =>
        LET y == obs.yielded[1]
        IN  IF obs.run.count > 0
            THEN /\ obs.run.total \in {2, 4}
                 /\ obs.run.value \in {Beat \div 2, Beat \div 4}
                 /\ y.value = obs.run.value
                 /\ y.after = obs.run.total - obs.run.count
                 /\ obs.run.count = 1 => (y.before = 0 /\ y.drawn = obs.run.value)
            ELSE /\ y.before = 0
                 /\ y.after = 0
                 /\ y.value = y.drawn
                 /\ y.drawn \notin {Beat \div 2, Beat \div 4}

\* C7 witness: the fourth call of a run of four sixteenths draws another value
\* than the sixteenth it returns, and leaves the buffer empty.
C7_Witness ==
    /\ pc = "yield"
    /\ obs.yielded # <<>>
    /\ obs.run = [value |-> Beat \div 4, total |-> 4, count |-> 4]
    /\ obs.yielded[1].drawn # Beat \div 4
    /\ obs.yielded[1].value = Beat \div 4
    /\ obs.yielded[1].after = 0

(***************************************************************************)
(* SpecPattern: the pattern loop of generate_structure, one iteration per  *)
(* step.  The draws made before an iteration are not fixed here: each      *)
(* iteration starts from any state of the stream, so that every sequence   *)
(* of labels and insert positions is covered.                              *)
(***************************************************************************)
InitPattern ==
    /\ pc = "pattern_count"
    /\ env = NewEnv(0)
    /\ \E only_one \in BOOLEAN :
        loc = [only_one |-> only_one, pattern |-> <<"a">>, count |-> 0, left |-> 0]
    /\ obs = <<>>

\* Line 482: range(random.randint(2, 6))
PatternCount ==
    /\ pc = "pattern_count"
    /\ \E x \in RandomStates :
        LET n == RandInt([env EXCEPT !.rng = x], 2, 6)
        IN  loc' = [loc EXCEPT !.count = n, !.left = n]
    /\ pc' = "pattern_loop"
    /\ UNCHANGED <<env, obs>>

\* Lines 483-488
PatternAppend ==
    /\ pc = "pattern_loop"
    /\ loc.left > 0
    /\ \E x \in RandomStates :
        loc' = [loc EXCEPT !.pattern = PatternIteration([env EXCEPT !.rng = x], @).ret,
                           !.left = @ - 1]
    /\ UNCHANGED <<pc, env, obs>>

\* Lines 490-491
PatternEnd ==
    /\ pc = "pattern_loop"
    /\ loc.left = 0
    /\ loc' = [loc EXCEPT !.pattern = FinishPattern(@, loc.only_one)]
    /\ pc' = "pattern_done"
    /\ UNCHANGED <<env, obs>>

NextPattern == PatternCount \/ PatternAppend \/ PatternEnd

SpecPattern == InitPattern /\ [][NextPattern]_vars

\* C2: the finished pattern contains each of a, b and c at least once, for
\* every number of appended labels (2 to 6) and every choice of labels and
\* insert positions; with only_one the pattern is exactly [a].
C2_PatternComplete ==
    pc = "pattern_done" =>
        /\ loc.count \in 2..6
        /\ IF loc.only_one
           THEN loc.pattern = <<"a">>
           ELSE \A label \in {"a", "b", "c"} : Contains(loc.pattern, label)

\* C2 witness: two labels were appended and both b and c had to be inserted:
\* the finished pattern has 5 labels and ends with an appended a.
C2_Witness ==
    /\ pc = "pattern_done"
    /\ ~loc.only_one
    /\ loc.count = 2
    /\ Len(loc.pattern) = 5
    /\ loc.pattern[5] = "a"

(***************************************************************************)
(* Spec: a host that builds a Piece and calls generate MaxCalls times with *)
(* the same seed and overrides.  loc holds the arguments and the locals of *)
(* generate, generate_structure and generate_melody; obs.calls holds what  *)
(* each returned call produced, with the log of its operations on the     *)
(* stream and gen_duration.buffer as the call left it; obs.motive holds    *)
(* the motive of the last chord as generate_motive returned it.            *)
(***************************************************************************)
\* The states tried for a stream that was seeded from system entropy.
EntropyStates == {5, 102}

\* The arguments tried: in_key None, a key of NOTE_NUMS, a lowest-octave key
\* and a name NOTE_NUMS does not have; in_beats None or 4; in_only None or
\* True.
KeyArgs == {<<>>, <<"A", 2>>, <<"C", 0 - 2>>, <<"H", 2>>}

BeatsArgs == {0, 4}

OnlyArgs == {<<>>, <<TRUE>>}

\* Piece.__init__
Piece(e, render_chords, render_bass, render_melody) ==
    [e EXCEPT !.render_chords = render_chords, !.render_bass = render_bass,
              !.render_melody = render_melody]

NoStructure == [chords |-> <<>>, bass |-> <<>>, melody |-> <<>>]

\* The locals of a call before its first statement.
NewCall(seed, in_key, in_beats, in_only) ==
    [seed |-> seed, in_key |-> in_key, in_beats |-> in_beats, in_only |-> in_only,
     instruments |-> <<>>, only_one |-> FALSE, label |-> 1, sections |-> <<>>,
     measures |-> 0, chords |-> <<>>, bass |-> <<>>, melody |-> <<>>, todo |-> <<>>,
     chord |-> NoChord, motive |-> <<>>, pattern |-> <<>>,
     structure |-> NoStructure, midi |-> NoMidi]

Init ==
    /\ pc = "idle"
    /\ \E x \in EntropyStates, rc, rb, rm \in BOOLEAN :
        env = Piece(NewEnv(x), rc, rb, rm)
    /\ \E seed \in 0..MaxSeed, in_key \in KeyArgs, in_beats \in BeatsArgs,
          in_only \in OnlyArgs :
        loc = NewCall(seed, in_key, in_beats, in_only)
    /\ obs = [calls |-> <<>>, motive |-> <<>>]

\* Where the call goes on: an exception ends it.
After(e, next) == IF e.err = "none" THEN next ELSE "raised"

\* Lines 361-370: the call is entered and the instruments are drawn.
DrawInstruments ==
    /\ pc = "idle"
    /\ Len(obs.calls) < MaxCalls
    /\ LET r == Instruments([env EXCEPT !.log = <<>>])
       IN  /\ env' = r.env
           /\ loc' = [NewCall(loc.seed, loc.in_key, loc.in_beats, loc.in_only)
                        EXCEPT !.instruments = r.ret]
    /\ pc' = "seed"
    /\ UNCHANGED obs

\* Lines 376-377
SeedCall ==
    /\ pc = "seed"
    /\ env' = SeedStream([env EXCEPT !.seed = loc.seed], loc.seed)
    /\ pc' = "parameters"
    /\ UNCHANGED <<loc, obs>>

\* Lines 379-419
ParametersCall ==
    /\ pc = "parameters"
    /\ env' = Parameters(env, loc.in_key, loc.in_beats)
    /\ loc' = [loc EXCEPT !.only_one = IF loc.in_only # <<>> THEN loc.in_only[1]
                                       ELSE FALSE]
    /\ pc' = "section"
    /\ UNCHANGED obs

\* Lines 475-477 and 594-615: the section s has its chords; the bass is
\* derived and the melody begun.
SectionBegun(s) ==
    /\ env' = MelodyStart(s.env)
    /\ loc' = [loc EXCEPT !.measures = s.measures, !.chords = s.chords,
                          !.bass = generate_bass(env.bass_style, s.chords),
                          !.melody = <<>>, !.todo = s.chords,
                          !.chord = NoChord, !.motive = <<>>]
    /\ obs' = [obs EXCEPT !.motive = <<>>]
    /\ pc' = "melody"

\* Lines 463-477 and 594-615
SectionBegin ==
    /\ pc = "section"
    /\ SectionBegun(SectionStart(env, loc.label = 1))

\* Lines 621-627: the motive m of the chord is trimmed and appended.
MotiveDone(m, chord) ==
    /\ env' = m.env
    /\ pc' = After(m.env, "melody")
    /\ IF m.env.err = "none"
       THEN /\ loc' = [loc EXCEPT !.melody = @ \o TrimMotive(m.ret, chord.duration),
                                  !.todo = Tail(@), !.chord = chord,
                                  !.motive = TrimMotive(m.ret, chord.duration)]
            /\ obs' = [obs EXCEPT !.motive = m.ret]
       ELSE UNCHANGED <<loc, obs>>

\* Lines 616-627: the motive of the next chord.
MotiveCall ==
    /\ pc = "melody"
    /\ loc.todo # <<>>
    /\ MotiveDone(generate_motive(env, Head(loc.todo), Head(loc.todo).duration,
                                  UseStack(env)),
                  Head(loc.todo))

\* Lines 475-477 and 629: the section is stored.
SectionEnd ==
    /\ pc = "melody"
    /\ loc.todo = <<>>
    /\ loc' = [loc EXCEPT !.sections = Append(@, [chords |-> loc.chords,
                                                  bass |-> loc.bass,
                                                  melody |-> loc.melody]),
                          !.label = @ + 1]
    /\ pc' = IF loc.label = Len(possible_sections) THEN "pattern" ELSE "section"
    /\ UNCHANGED <<env, obs>>

\* Lines 479-491
PatternCall ==
    /\ pc = "pattern"
    /\ LET r == BuildPattern(env, loc.only_one)
       IN  /\ env' = r.env
           /\ loc' = [loc EXCEPT !.pattern = r.ret]
    /\ pc' = "ending"
    /\ UNCHANGED obs

\* Lines 496-519
EndingCall ==
    /\ pc = "ending"
    /\ LET r == Ending(env, Materialize(loc.sections, loc.pattern))
       IN  /\ env' = r.env
           /\ loc' = [loc EXCEPT !.structure = r.ret]
    /\ pc' = "chords_track"
    /\ UNCHANGED obs

\* Lines 422-431
ChordsTrack ==
    /\ pc = "chords_track"
    /\ IF env.render_chords
       THEN LET r == create_track(env, [name |-> <<"Chords">>, track |-> 1, channel |-> 1,
                                        instrument |-> loc.instruments[2]],
                                  loc.structure.chords, NoMidi)
            IN  /\ env' = r.env
                /\ loc' = [loc EXCEPT !.midi = r.ret]
       ELSE UNCHANGED <<env, loc>>
    /\ pc' = "bass_track"
    /\ UNCHANGED obs

\* Lines 433-438: midi=midi reads the local, which is unbound when the chords
\* were not rendered.
BassTrack ==
    /\ pc = "bass_track"
    /\ IF env.render_bass
       THEN IF loc.midi.bound
            THEN LET r == create_track(env, [name |-> <<"Bass">>, track |-> 2,
                                             channel |-> 2,
                                             instrument |-> loc.instruments[3]],
                                       loc.structure.bass, loc.midi)
                 IN  /\ env' = r.env
                     /\ loc' = [loc EXCEPT !.midi = r.ret]
            ELSE /\ env' = Raise(env, "UnboundLocalError")
                 /\ UNCHANGED loc
       ELSE UNCHANGED <<env, loc>>
    /\ pc' = After(env', "melody_track")
    /\ UNCHANGED obs

\* Lines 440-450
MelodyTrack ==
    /\ pc = "melody_track"
    /\ IF env.render_melody
       THEN IF loc.midi.bound
            THEN LET r == create_track(env, [name |-> <<"Melody", env.seed>>, track |-> 0,
                                             channel |-> 0,
                                             instrument |-> loc.instruments[1]],
                                       loc.structure.melody, loc.midi)
                 IN  /\ env' = r.env
                     /\ loc' = [loc EXCEPT !.midi = r.ret]
            ELSE /\ env' = Raise(env, "UnboundLocalError")
                 /\ UNCHANGED loc
       ELSE UNCHANGED <<env, loc>>
    /\ pc' = After(env', "reseed")
    /\ UNCHANGED obs

\* Line 452: random.seed(None)
ReseedCall ==
    /\ pc = "reseed"
    /\ \E x \in EntropyStates : env' = Rerandomize(env, x)
    /\ pc' = "return"
    /\ UNCHANGED <<loc, obs>>

\* Line 454: return midi, which is unbound when no track was rendered.
ReturnCall ==
    /\ pc = "return"
    /\ IF loc.midi.bound
       THEN /\ obs' = [obs EXCEPT !.calls =
                        Append(@, [seed |-> loc.seed, in_key |-> loc.in_key,
                                   in_beats |-> loc.in_beats, in_only |-> loc.in_only,
                                   instruments |-> loc.instruments,
                                   structure |-> loc.structure, midi |-> loc.midi,
                                   log |-> env.log, buffer |-> env.buffer])]
            /\ UNCHANGED env
       ELSE /\ env' = Raise(env, "UnboundLocalError")
            /\ UNCHANGED obs
    /\ pc' = After(env', "idle")
    /\ UNCHANGED loc

Next ==
    \/ DrawInstruments
    \/ SeedCall
    \/ ParametersCall
    \/ SectionBegin
    \/ MotiveCall
    \/ SectionEnd
    \/ PatternCall
    \/ EndingCall
    \/ ChordsTrack
    \/ BassTrack
    \/ MelodyTrack
    \/ ReseedCall
    \/ ReturnCall

Spec == Init /\ [][Next]_vars

(***************************************************************************)
(* SpecMelody: the melody of one section, one chord per step.  The section *)
(* starts from any state of the stream, with any duration profile, in the  *)
(* lowest and the highest key of the key choices, with or without a        *)
(* duration left in gen_duration.buffer by what ran before.                *)
(***************************************************************************)
MelodyKeys == {<<"C", 2>>, <<"B", 2>>}

LeftoverBuffers == {<<>>, <<Beat \div 2>>}

InitMelody ==
    /\ pc = "section"
    /\ \E x \in RandomStates, key \in MelodyKeys, beats \in 2..7,
          w \in 1..Len(possible_weights), buffer \in LeftoverBuffers :
        env = [NewEnv(x) EXCEPT !.key_root = NOTE_NUMS(key),
                                !.pitches = get_pitches(NOTE_NUMS(key)),
                                !.beats_per_measure = beats,
                                !.default_tempo = MIN_TEMPO,
                                !.duration_weights = possible_weights[w].weights,
                                !.bass_style = "simple",
                                !.buffer = buffer]
    /\ loc = [NewCall(0, <<>>, 0, <<>>) EXCEPT !.label = Len(possible_sections)]
    /\ obs = [calls |-> <<>>, motive |-> <<>>]

NextMelody == SectionBegin \/ MotiveCall \/ SectionEnd

SpecMelody == InitMelody /\ [][NextMelody]_vars

(***************************************************************************)
(* SpecSection: the chords and the bass of one section.  The section       *)
(* starts from any state of the stream, in every meter from 1 to 8 beats   *)
(* (2 to 7 are drawn, the others can be given by the caller), with each    *)
(* bass style, in the lowest and the highest key of the key choices and in *)
(* the lowest key the caller can give.  loc holds the progression as       *)
(* generate_chords returned it, the measure count, the section's chords    *)
(* and its bass.                                                           *)
(***************************************************************************)
SectionKeys == {<<"C", 0 - 2>>, <<"C", 2>>, <<"B", 2>>}

SectionBeats == 1..8

InitSection ==
    /\ pc = "chords"
    /\ \E x \in RandomStates, key \in SectionKeys, beats \in SectionBeats,
          style \in {"simple", "marco", "marching"} :
        env = [NewEnv(x) EXCEPT !.key_root = NOTE_NUMS(key),
                                !.pitches = get_pitches(NOTE_NUMS(key)),
                                !.beats_per_measure = beats,
                                !.default_tempo = MIN_TEMPO,
                                !.bass_style = style]
    /\ \E first_section \in BOOLEAN :
        loc = [first_section |-> first_section, progression |-> <<>>,
               measures |-> 0, chords |-> <<>>, bass |-> <<>>]
    /\ obs = <<>>

\* Lines 466-475: the progression g of `measures` measures was generated.
ChordsMade(g, measures) ==
    /\ env' = g.env
    /\ loc' = [loc EXCEPT !.progression = g.ret, !.measures = measures,
                          !.chords = SectionChords(g, measures).chords]
    /\ pc' = "bass"
    /\ UNCHANGED obs

\* Lines 466-475
ChordsCall ==
    /\ pc = "chords"
    /\ LET s == SectionEntry(env)
       IN  ChordsMade(generate_chords(s.env, s.measures, loc.first_section), s.measures)

\* Line 476
BassCall ==
    /\ pc = "bass"
    /\ loc' = [loc EXCEPT !.bass = generate_bass(env.bass_style, loc.chords)]
    /\ pc' = "bass_done"
    /\ UNCHANGED <<env, obs>>

NextSection == ChordsCall \/ BassCall

SpecSection == InitSection /\ [][NextSection]_vars

(***************************************************************************)
(* SpecChord: what get_chord returns for every outcome of its three draws  *)
(* (the pick among chord_choices, the seventh flag, the inversion), with   *)
(* and without the override, and the spread of the chord made of it on     *)
(* the key root C_2.                                                       *)
(***************************************************************************)
InitChord ==
    /\ pc = "call"
    /\ env = NewEnv(0)
    /\ loc = [pick |-> <<>>, override_use_root |-> FALSE, seventh |-> FALSE,
              ret |-> <<>>, chord |-> NoChord, known |-> FALSE, notes |-> <<>>]
    /\ obs = <<>>

\* ChordStrategy.get_chord(override_use_root)
GetChordCall ==
    /\ pc = "call"
    /\ \E i \in 1..Len(chord_choices), override_use_root \in BOOLEAN,
          seventh \in BOOLEAN, inversion \in {0, 1, 2} :
        loc' = [loc EXCEPT !.pick = chord_choices[i],
                           !.override_use_root = override_use_root,
                           !.seventh = seventh,
                           !.ret = ChordOf(chord_choices[i], override_use_root,
                                           seventh, inversion)]
    /\ pc' = "chord"
    /\ UNCHANGED <<env, obs>>

\* Chord(root + root_shift, quality, inversion=inversion).spread(clamp=True):
\* a quality that is no key of Chord.defs raises KeyError.
ChordSpreadCall ==
    /\ pc = "chord"
    /\ LET c == Chord(NOTE_NUMS(<<"C", 2>>) + loc.ret.root_shift, loc.ret.quality,
                      loc.ret.inversion, 4 * Beat, 80)
           known == c.quality \in DOMAIN ChordDefs
       IN  /\ loc' = [loc EXCEPT !.chord = c, !.known = known,
                                 !.notes = IF known THEN Spread(c, TRUE, <<>>)
                                           ELSE <<>>]
           /\ env' = IF known THEN env ELSE Raise(env, "KeyError")
    /\ pc' = After(env', "spread_done")
    /\ UNCHANGED obs

NextChord == GetChordCall \/ ChordSpreadCall

SpecChord == InitChord /\ [][NextChord]_vars

(***************************************************************************)
(* SpecPitches: get_pitches on its own, for every note number of           *)
(* gm.NOTE_NUMS as root.                                                   *)
(***************************************************************************)
PitchRoots == 0..131

InitPitches ==
    /\ pc = "call"
    /\ env = NewEnv(0)
    /\ loc = [root |-> 0, pitches |-> <<>>]
    /\ obs = <<>>

\* get_pitches(root)
PitchesCall ==
    /\ pc = "call"
    /\ \E root \in PitchRoots :
        loc' = [root |-> root, pitches |-> get_pitches(root)]
    /\ pc' = "pitches_done"
    /\ UNCHANGED <<env, obs>>

NextPitches == PitchesCall

SpecPitches == InitPitches /\ [][NextPitches]_vars

(***************************************************************************)
(* SpecTrack: create_track on its own, called for a first track           *)
(* (midi=None) and then for a second one on the container it returned,     *)
(* with a stream of up to MaxItems items, from any state of the stream.   *)
(***************************************************************************)
\* The items tried: a rest, a note, a triad and a seventh chord.
TrackItemArgs ==
    {Rest(Beat \div 2), Note(60, Beat, 100),
     Chord(48, "M", 1, 4 * Beat, 80), Chord(57, "m7", 0, 2 * Beat, 80)}

TrackStreams == UNION {[1..n -> TrackItemArgs] : n \in 0..MaxItems}

InitTrack ==
    /\ pc = "track"
    /\ \E x \in RandomStates :
        env = [NewEnv(x) EXCEPT !.beats_per_measure = 4,
                                !.default_tempo = MIN_TEMPO]
    /\ \E notes_data \in TrackStreams :
        loc = [notes_data |-> notes_data, midi |-> NoMidi]
    /\ obs = <<>>

\* The track container r.ret was returned.
TrackMade(r) ==
    /\ env' = r.env
    /\ loc' = [loc EXCEPT !.midi = r.ret]
    /\ UNCHANGED obs

\* create_track(meta_data, notes_data)
FirstTrackCall ==
    /\ pc = "track"
    /\ TrackMade(create_track(env, [name |-> <<"Chords">>, track |-> 1, channel |-> 1,
                                    instrument |-> 48],
                              loc.notes_data, NoMidi))
    /\ pc' = "track_done"

\* create_track(meta_data, notes_data, midi=midi)
SecondTrackCall ==
    /\ pc = "track_done"
    /\ TrackMade(create_track(env, [name |-> <<"Bass">>, track |-> 2, channel |-> 2,
                                    instrument |-> 32],
                              loc.notes_data, loc.midi))
    /\ pc' = "tracks_done"

NextTrack == FirstTrackCall \/ SecondTrackCall

SpecTrack == InitTrack /\ [][NextTrack]_vars

(***************************************************************************)
(* SpecMotive: the melody of one section, one pass of generate_motive's    *)
(* while loop per step.  obs.ms is the motive under way (index, pitch,     *)
(* notes, time, use_stack); obs.pass is the pass just made: its branch,    *)
(* the stack, the index and use_stack before it, and the index the         *)
(* interval led to before the range discipline.  The section starts from   *)
(* any state of the stream, in the lowest and the highest key of the key   *)
(* choices and in a key given by the caller.                               *)
(***************************************************************************)
MotiveKeys == {<<"C", 2>>, <<"B", 2>>, <<"B", 6>>}

MotiveBeats == {4, 7}

NoMotive == [index |-> 0, pitch |-> 0, notes_data |-> <<>>, time |-> 0,
             first_note |-> TRUE, use_stack |-> FALSE]

NoPass == [kind |-> "none", stack |-> <<>>, index |-> 0, use_stack |-> FALSE,
           moved |-> 0]

InitMotive ==
    /\ pc = "section"
    /\ \E x \in RandomStates, key \in MotiveKeys, beats \in MotiveBeats,
          w \in 1..Len(possible_weights) :
        env = [NewEnv(x) EXCEPT !.key_root = NOTE_NUMS(key),
                                !.pitches = get_pitches(NOTE_NUMS(key)),
                                !.beats_per_measure = beats,
                                !.default_tempo = MIN_TEMPO,
                                !.duration_weights = possible_weights[w].weights,
                                !.bass_style = "simple"]
    /\ loc = [NewCall(0, <<>>, 0, <<>>) EXCEPT !.label = Len(possible_sections)]
    /\ obs = [calls |-> <<>>, motive |-> <<>>, ms |-> NoMotive, pass |-> NoPass,
              at_start |-> 0]

\* Lines 618-659: generate_motive is entered for the next chord.
MotiveBegin ==
    /\ pc = "melody"
    /\ loc.todo # <<>>
    /\ LET s == MotiveStart(env, Head(loc.todo), UseStack(env))
       IN  /\ env' = s.env
           /\ obs' = [obs EXCEPT !.ms = s.ms, !.pass = NoPass,
                                 !.at_start = Len(env.iv_stack)]
           /\ pc' = After(s.env, "motive")
    /\ loc' = [loc EXCEPT !.chord = Head(loc.todo)]

\* The index an interval pass moved to (line 697), from what the pass r left.
MovedIndex(e, ms, kind, r) ==
    IF kind = "stack" THEN ms.index + Head(e.iv_stack)
    ELSE IF kind = "interval" /\ r.env.err = "none"
         THEN ms.index + r.env.iv_stack[Len(r.env.iv_stack)]
         ELSE r.ms.index

\* The pass r of the while loop was made.
PassMade(r, kind) ==
    /\ env' = r.env
    /\ obs' = [obs EXCEPT !.ms = r.ms,
                          !.pass = [kind |-> kind, stack |-> env.iv_stack,
                                    index |-> obs.ms.index,
                                    use_stack |-> obs.ms.use_stack,
                                    moved |-> MovedIndex(env, obs.ms, kind, r)]]
    /\ pc' = After(r.env, "motive")
    /\ UNCHANGED loc

\* Lines 660-735: one pass of the while loop.
MotivePass ==
    /\ pc = "motive"
    /\ obs.ms.time < loc.chord.duration
    /\ PassMade(MotiveEvent(env, obs.ms, loc.chord), PassKind(env, obs.ms))

\* Lines 738 and 621-627: the motive is returned, trimmed and appended.
MotiveEnd ==
    /\ pc = "motive"
    /\ obs.ms.time >= loc.chord.duration
    /\ MotiveDone(MotiveReturn([env |-> env, ms |-> obs.ms]), loc.chord)

NextMotive == SectionBegin \/ MotiveBegin \/ MotivePass \/ MotiveEnd \/ SectionEnd

SpecMotive == InitMotive /\ [][NextMotive]_vars

\* C3: after the trim, the durations of a chord's motive sum to the chord's
\* duration; the motive has the events generate_motive returned, in the same
\* order, only the last one's duration may differ and it stays above 0; the
\* motive is what was appended to the section's melody.
C3_DurationConservation ==
    (pc = "melody" /\ obs.motive # <<>>) =>
        LET n == Len(obs.motive)
        IN  /\ Len(loc.motive) = n
            /\ \A i \in 1..(n - 1) : loc.motive[i] = obs.motive[i]
            /\ loc.motive[n] = [obs.motive[n] EXCEPT !.duration = loc.motive[n].duration]
            /\ loc.motive[n].duration > 0
            /\ loc.motive[n].duration <= obs.motive[n].duration
            /\ SumDurations(loc.motive) = loc.chord.duration
            /\ Len(loc.melody) >= n
            /\ SubSeq(loc.melody, Len(loc.melody) - n + 1, Len(loc.melody)) = loc.motive

\* C3 witness: a motive of several events overshot its chord, its last event
\* was cut to a shorter one, and the run of durations it began goes on in
\* the buffer.
C3_Witness ==
    /\ pc = "melody"
    /\ Len(obs.motive) >= 3
    /\ SumDurations(obs.motive) > loc.chord.duration
    /\ loc.motive[Len(loc.motive)].duration < obs.motive[Len(obs.motive)].duration
    /\ SumDurations(loc.motive) = loc.chord.duration
    /\ env.buffer # <<>>

\* C1: two calls of generate that returned, made with the same seed and the
\* same overrides by the same process, give the same chords, bass and melody
\* streams.
C1_Determinism ==
    \A i, j \in 1..Len(obs.calls) :
        (/\ obs.calls[i].seed = obs.calls[j].seed
         /\ obs.calls[i].in_key = obs.calls[j].in_key
         /\ obs.calls[i].in_beats = obs.calls[j].in_beats
         /\ obs.calls[i].in_only = obs.calls[j].in_only)
        => obs.calls[i].structure = obs.calls[j].structure

\* C8 as stated: the three streams of generate_structure are non-empty and the
\* last bass event is a Note at key_root - 12 that lasts beats_per_measure
\* beats.
C8_EndingAsStated ==
    pc = "chords_track" =>
        /\ loc.structure.chords # <<>>
        /\ loc.structure.bass # <<>>
        /\ loc.structure.melody # <<>>
        /\ LET last == loc.structure.bass[Len(loc.structure.bass)]
           IN  /\ last.kind = "Note"
               /\ last.pitch = env.key_root - 12
               /\ last.duration = env.beats_per_measure * Beat

\* C8: the three streams of generate_structure are non-empty and the last bass
\* event is a Note of one beat at key_root - 12, at 0 when key_root is below
\* 12.
C8_EndingBass ==
    pc = "chords_track" =>
        /\ loc.structure.chords # <<>>
        /\ loc.structure.bass # <<>>
        /\ loc.structure.melody # <<>>
        /\ LET last == loc.structure.bass[Len(loc.structure.bass)]
           IN  /\ last.kind = "Note"
               /\ last.pitch = (IF env.key_root >= 12 THEN env.key_root - 12 ELSE 0)
               /\ last.duration = Beat
               /\ last.volume = 80

\* C8 witness: a structure in a measure of more than one beat, all sections
\* laid out, that ends with the one-beat bass note an octave under the key
\* root.
C8_Witness ==
    /\ pc = "chords_track"
    /\ env.beats_per_measure > 1
    /\ env.key_root >= 48
    /\ Len(loc.pattern) >= 3
    /\ Len(loc.structure.bass) > 1
    /\ loc.structure.bass[Len(loc.structure.bass)] =
            [kind |-> "Note", pitch |-> env.key_root - 12, duration |-> Beat,
             volume |-> 80]

\* C9: in a call of generate, the first operation on the shared stream is the
\* seeding from the caller's seed: no draw of the call is made before it.
C9_SeededBeforeDraws ==
    (pc # "idle" /\ env.log # <<>>) => env.log[1].op = "seed"

\* The note events of a track container.
RECURSIVE NoteEvents(_)
NoteEvents(tracks) ==
    IF tracks = <<>> THEN 0
    ELSE Cardinality({i \in 1..Len(Head(tracks).events) :
                        Head(tracks).events[i].kind = "note"})
         + NoteEvents(Tail(tracks))

\* C10: when generate has returned, the last operation of the call on the
\* shared stream is the re-randomization, made once; every draw of the call,
\* one detach draw per note event of the rendered tracks among them, comes
\* before it.
C10_RerandomizedLast ==
    \A i \in 1..Len(obs.calls) :
        LET log == obs.calls[i].log
            n == Len(log)
        IN  /\ n >= 2
            /\ log[n].op = "seed_none"
            /\ \A k \in 1..(n - 1) : log[k].op # "seed_none"
            /\ log[n - 1].op = "draw"
            /\ log[n - 1].n >= NoteEvents(obs.calls[i].midi.tracks)
            /\ (pc = "idle" /\ i = Len(obs.calls)) => env.log = log

\* C10 witness: a call that rendered its three tracks has returned after two
\* hundred detach draws or more, and the stream was re-randomized last.
C10_Witness ==
    /\ pc = "idle"
    /\ Len(obs.calls) >= 1
    /\ LET c == obs.calls[Len(obs.calls)]
       IN  /\ Len(c.midi.tracks) = 3
           /\ NoteEvents(c.midi.tracks) >= 200
           /\ c.log[Len(c.log)].op = "seed_none"
           /\ env.log = c.log

(***************************************************************************)
(* Claims on the chords of a piece                                         *)
(***************************************************************************)
\* The chord is a tonic major chord of the key: M, or Mmaj7 when it was made a
\* seventh chord.
IsTonic(e, chord) == chord.root = e.key_root /\ chord.quality \in {"M", "Mmaj7"}

\* Two runs of generate_chords from the same stream, one with first_section
\* and one without: the same draws are made and only chords[0] differs, in
\* root and quality.
SameButFirst(e, forced, free) ==
    /\ forced.env = free.env
    /\ Len(forced.ret) = Len(free.ret)
    /\ Len(forced.ret) >= 1
    /\ IsTonic(e, forced.ret[1])
    /\ forced.ret[1].inversion = free.ret[1].inversion
    /\ forced.ret[1].duration = free.ret[1].duration
    /\ \A i \in 2..Len(forced.ret) : forced.ret[i] = free.ret[i]

\* C11: the first chord of the chords stream is the first chord of section a,
\* on the key root with quality M or Mmaj7; forcing the tonic changes the
\* first chord of the progression only, and the pattern keeps a at its head
\* whatever is inserted.
C11_TonicOpening ==
    /\ pc = "section" =>
            LET s == SectionEntry(env)
            IN  SameButFirst(env, generate_chords(s.env, s.measures, TRUE),
                             generate_chords(s.env, s.measures, FALSE))
    /\ (pc = "melody" /\ loc.label = 1) => IsTonic(env, loc.chords[1])
    /\ pc = "ending" => loc.pattern[1] = "a"
    /\ pc = "chords_track" =>
            /\ loc.pattern[1] = "a"
            /\ loc.structure.chords[1] = loc.sections[1].chords[1]
            /\ IsTonic(env, loc.structure.chords[1])

\* C11 witness: a piece of four sections or more whose second section is not
\* a; it opens on the tonic major seventh, the second chord of section a and
\* the first chord of section b are on other degrees.
C11_Witness ==
    /\ pc = "chords_track"
    /\ Len(loc.pattern) >= 4
    /\ loc.pattern[2] # "a"
    /\ loc.structure.chords[1].quality = "Mmaj7"
    /\ loc.sections[1].chords[2].root # env.key_root
    /\ loc.sections[2].chords[1].root # env.key_root

(***************************************************************************)
(* Claims on generate_motive                                               *)
(***************************************************************************)
\* C12: every Note of a motive generate_motive returned has its pitch between
\* min_pitch (C_2 = 48) and max_pitch (C_5 = 84).
C12_MelodyRange ==
    pc = "melody" =>
        \A i \in 1..Len(obs.motive) :
            obs.motive[i].kind = "Note" =>
                obs.motive[i].pitch >= min_pitch /\ obs.motive[i].pitch <= max_pitch

\* C13: resolving a pitch to an index of the pitch list never raises the
\* lookup failure (ValueError of list.index): not for the start pitch, not
\* for a pitch from the chord, not after the range discipline moved a pitch
\* by an octave; the index found is the place of the pitch in the list.
C13_ResolutionNeverFails ==
    /\ env.err # "ValueError"
    /\ pc = "motive" =>
            /\ obs.ms.index \in 0..(Len(env.pitches) - 1)
            /\ env.pitches[obs.ms.index + 1] = obs.ms.pitch

\* C19: whenever a pass moves the index by an interval, fresh or popped from
\* the stack, the index it moves to lies in 0 .. len(pitches) - 1.
C19_IndexInBounds ==
    obs.pass.kind \in {"stack", "interval"} =>
        obs.pass.moved \in 0..(Len(env.pitches) - 1)

\* C14: a motive is in reuse mode only if the stack held more than 4
\* intervals when it started; in reuse mode with a non-empty stack every note
\* after the first moves by the oldest interval of the stack, which is
\* removed, and nothing is appended; a note made with the stack empty ends
\* reuse mode for the rest of the motive and appends its interval; the first
\* note and rests leave the stack alone; the stack is empty when the melody
\* of a section starts.
C14_ReuseMode ==
    /\ (pc = "melody" /\ loc.todo = loc.chords) => env.iv_stack = <<>>
    /\ (pc \in {"motive", "raised"} /\ obs.ms.use_stack) => obs.at_start > 4
    /\ (pc \in {"motive", "raised"} /\ obs.pass.kind # "none") =>
        LET q == obs.pass
        IN  /\ obs.ms.use_stack => q.use_stack
            /\ (q.use_stack /\ q.stack # <<>> /\ q.kind \notin {"start", "rest"}) =>
                    q.kind = "stack"
            /\ q.kind = "stack" =>
                    /\ q.use_stack /\ q.stack # <<>>
                    /\ obs.ms.use_stack
                    /\ q.moved = q.index + Head(q.stack)
                    /\ env.iv_stack = Tail(q.stack)
            /\ q.kind \in {"interval", "chord"} =>
                    /\ ~obs.ms.use_stack
                    /\ env.err = "none" =>
                            /\ Len(env.iv_stack) = Len(q.stack) + 1
                            /\ SubSeq(env.iv_stack, 1, Len(q.stack)) = q.stack
            /\ q.kind \in {"start", "rest"} =>
                    /\ env.iv_stack = q.stack
                    /\ obs.ms.use_stack = q.use_stack

\* C14 witness: in a key of the key choices, a motive that started in reuse
\* mode has popped the whole stack, and the note after that left reuse mode
\* and put its own interval on the stack.
C14_Witness ==
    /\ pc = "motive"
    /\ env.key_root < 60
    /\ obs.at_start > 4
    /\ obs.pass.use_stack
    /\ obs.pass.stack = <<>>
    /\ obs.pass.kind \in {"interval", "chord"}
    /\ ~obs.ms.use_stack
    /\ Len(env.iv_stack) = 1

(***************************************************************************)
(* Claims on the chords and the bass of a section                          *)
(***************************************************************************)
\* The bass pitch of a chord: root - 12 as stated, or as the Note constructor
\* keeps it, not below 0.
BassPitch(c, clamped) == IF clamped THEN Max(c.root - 12, 0) ELSE c.root - 12

\* The number of bass notes of a chord in a style.
BassCount(style, c) ==
    IF style = "marching" THEN c.duration \div Beat
    ELSE IF style = "marco" THEN 2 ELSE 1

\* The duration of the i-th bass note of a chord in a style.
BassDuration(style, c, i) ==
    IF style = "marching" THEN Beat
    ELSE IF style = "marco" THEN (IF i = 1 THEN c.duration - Beat ELSE Beat)
    ELSE c.duration

\* The bass is, chord after chord, the notes of the style at the chord's bass
\* pitch, and they last as long as the chord.
RECURSIVE BassFollows(_, _, _, _)
BassFollows(bass, chords, style, clamped) ==
    IF chords = <<>>
    THEN bass = <<>>
    ELSE LET c == Head(chords)
             n == BassCount(style, c)
         IN  /\ Len(bass) >= n
             /\ \A i \in 1..n :
                    /\ bass[i].kind = "Note"
                    /\ bass[i].pitch = BassPitch(c, clamped)
                    /\ bass[i].duration = BassDuration(style, c, i)
             /\ SumDurations(SubSeq(bass, 1, n)) = c.duration
             /\ BassFollows(SubSeq(bass, n + 1, Len(bass)), Tail(chords), style, clamped)

\* C15 as stated: the bass of a section is, for each chord in order, Notes at
\* chord.root - 12: one of the chord's duration (simple), one of duration - 1
\* and one of 1 beat (marco), or duration notes of 1 beat (marching); the
\* bass lasts as long as the chords.
C15_BassAsStated ==
    pc = "bass_done" =>
        /\ BassFollows(loc.bass, loc.chords, env.bass_style, FALSE)
        /\ SumDurations(loc.bass) = SumDurations(loc.chords)

\* C15 amended: as above, at pitch chord.root - 12 or at 0 when the root is
\* below 12.
C15_BassClamped ==
    pc = "bass_done" =>
        /\ BassFollows(loc.bass, loc.chords, env.bass_style, TRUE)
        /\ SumDurations(loc.bass) = SumDurations(loc.chords)

\* C15 witness: a marco bass in 7 beats under a progression with a split
\* measure: two notes per chord, an octave under the roots.
C15_Witness ==
    /\ pc = "bass_done"
    /\ env.bass_style = "marco"
    /\ env.beats_per_measure = 7
    /\ env.key_root >= 48
    /\ Len(loc.progression) > loc.measures
    /\ Len(loc.bass) = 2 * Len(loc.chords)
    /\ loc.bass[1].pitch = loc.chords[1].root - 12
    /\ loc.bass[1].duration = loc.chords[1].duration - Beat

\* The number of measures the chords make in a meter, each measure one chord
\* of the whole measure or the chords of an entry of the split table; -1
\* when the chords are not such measures.
RECURSIVE CountMeasures(_, _)
CountMeasures(chords, beats) ==
    IF chords = <<>> THEN 0
    ELSE LET whole == Head(chords).duration = beats * Beat
             fits(k) == /\ Len(chords) >= k
                        /\ \A i \in 1..k : chords[i].duration % Beat = 0
                        /\ Contains(SplitTable(beats),
                                    [i \in 1..k |-> chords[i].duration \div Beat])
             k == IF whole THEN 1 ELSE IF fits(2) THEN 2 ELSE IF fits(3) THEN 3 ELSE 0
             rest == IF k = 0 THEN 0 - 1
                     ELSE CountMeasures(SubSeq(chords, k + 1, Len(chords)), beats)
         IN  IF rest < 0 THEN 0 - 1 ELSE rest + 1

\* C16: the progression of a section makes exactly `measures` measures, each
\* one chord of beats_per_measure beats or the 2 to 3 chords of an entry of
\* the split table; no measure is split in a meter of 3 beats or less; the
\* section's chords are the progression, twice over when measures < 5.
C16_MeasurePartition ==
    pc \in {"bass", "bass_done"} =>
        /\ loc.measures \in {2, 3, 4, 8}
        /\ CountMeasures(loc.progression, env.beats_per_measure) = loc.measures
        /\ env.beats_per_measure <= 3 => Len(loc.progression) = loc.measures
        /\ loc.chords = IF loc.measures < 5 THEN loc.progression \o loc.progression
                        ELSE loc.progression

\* C16 witness: three measures of 7 beats, one of them split in three chords,
\* doubled into ten chords.
C16_Witness ==
    /\ pc = "bass"
    /\ env.beats_per_measure = 7
    /\ loc.measures = 3
    /\ Len(loc.progression) = 5
    /\ Len(loc.chords) = 10

(***************************************************************************)
(* Claims on create_track                                                  *)
(***************************************************************************)
\* The number of events an item emits: none for a Rest, one for a Note, the
\* label and one per pitch for a Chord.
EventCount(item) ==
    IF item.kind = "Rest" THEN 0
    ELSE IF item.kind = "Note" THEN 1
    ELSE 1 + Len(ChordDefs[item.quality])

RECURSIVE CountEvents(_)
CountEvents(items) ==
    IF items = <<>> THEN 0 ELSE EventCount(Head(items)) + CountEvents(Tail(items))

\* The event is a note event of the note at the onset, shortened by a detach
\* amount at most.
IsNoteEvent(event, note, onset) ==
    /\ event.kind = "note"
    /\ event.onset = onset
    /\ event.pitch = note.pitch
    /\ event.volume = note.volume
    /\ event.duration \in {note.duration, note.duration - 1, note.duration - 2}

\* The events of a track are those of the items, in order, each at the sum
\* of the durations of the items before it.
EventsFollow(events, items) ==
    /\ Len(events) = CountEvents(items)
    /\ \A k \in 1..Len(items) :
        LET item == items[k]
            base == CountEvents(SubSeq(items, 1, k - 1))
            onset == SumDurations(SubSeq(items, 1, k - 1))
        IN  /\ item.kind = "Note" => IsNoteEvent(events[base + 1], item, onset)
            /\ item.kind = "Chord" =>
                    /\ events[base + 1].kind = "text"
                    /\ events[base + 1].onset = onset
                    /\ \A j \in 1..Len(ChordDefs[item.quality]) :
                            IsNoteEvent(events[base + 1 + j],
                                        Spread(item, TRUE, <<>>)[j], onset)
    /\ \A i, j \in 1..Len(events) : i <= j => events[i].onset <= events[j].onset

\* C17: in every track create_track made, each event starts at the sum of the
\* nominal durations of the items before its item, counted from 0; a Rest
\* emits nothing, a Note one note event, a Chord its label and one note event
\* per pitch of its clamped spread, all at the chord's onset; the onsets
\* never decrease along the track.
C17_TrackOnsets ==
    pc \in {"track_done", "tracks_done"} =>
        \A t \in 1..Len(loc.midi.tracks) :
            EventsFollow(loc.midi.tracks[t].events, loc.notes_data)

\* C17 witness: a rest, a chord and a note: the chord's four events start at
\* the rest's duration, its first note was shortened by a detach amount, and
\* the note starts at the sum of the rest's and the chord's full durations;
\* the second track holds as many events as the first.
C17_Witness ==
    /\ pc = "tracks_done"
    /\ loc.notes_data = <<Rest(Beat \div 2), Chord(48, "M", 1, 4 * Beat, 80),
                          Note(60, Beat, 100)>>
    /\ Len(loc.midi.tracks) = 2
    /\ LET events == loc.midi.tracks[1].events
       IN  /\ Len(events) = 5
           /\ events[1].kind = "text" /\ events[1].onset = Beat \div 2
           /\ events[2].duration < 4 * Beat
           /\ events[5].onset = Beat \div 2 + 4 * Beat
    /\ Len(loc.midi.tracks[2].events) = 5

(***************************************************************************)
(* Claims on get_pitches                                                   *)
(***************************************************************************)
\* The degrees of the major scale, in semitones above the root.
MajorScale == {0, 2, 4, 5, 7, 9, 11}

\* The list is strictly ascending and holds exactly the pitches of 0 .. top
\* that are on a degree of the root's major scale.
IsScaleUpTo(pitches, root, top) ==
    /\ \A i \in 1..(Len(pitches) - 1) : pitches[i] < pitches[i + 1]
    /\ {pitches[i] : i \in 1..Len(pitches)} =
            {q \in 0..top : (q + 132 - root) % 12 \in MajorScale}

\* C18 as stated: get_pitches(root) is the ascending list of the pitches of
\* the root's major scale across 8 octaves, 7 per octave: the 56 pitches of
\* 0 .. 95 on a degree of the scale.
C18_ScaleAsStated ==
    pc = "pitches_done" =>
        /\ Len(loc.pitches) = 8 * 7
        /\ IsScaleUpTo(loc.pitches, loc.root, 8 * 12 - 1)

\* C18 amended: get_pitches(root) is the ascending list of the pitches of the
\* root's major scale in the 9 octaves that start at 0, 12, .. 96: the 63
\* pitches of 0 .. 107 on a degree of the scale.
C18_ScaleNineOctaves ==
    pc = "pitches_done" =>
        /\ Len(loc.pitches) = 9 * 7
        /\ IsScaleUpTo(loc.pitches, loc.root, 9 * 12 - 1)

\* C18 witness: the scale of B_2 starts on 1, 3, 4 and ends on 106, 107.
C18_Witness ==
    /\ pc = "pitches_done"
    /\ loc.root = NOTE_NUMS(<<"B", 2>>)
    /\ SubSeq(loc.pitches, 1, 3) = <<1, 3, 4>>
    /\ SubSeq(loc.pitches, 62, 63) = <<106, 107>>

(***************************************************************************)
(* Claims on ChordStrategy.get_chord                                       *)
(***************************************************************************)
\* C20: every quality get_chord returns, for every chord choice, with and
\* without the seventh, with and without the override, is a key of
\* Chord.defs, and spreading the chord raises no lookup error.
C20_KnownQualities ==
    /\ pc \in {"chord", "spread_done"} => loc.ret.quality \in DOMAIN ChordDefs
    /\ env.err # "KeyError"
    /\ pc = "spread_done" => Len(loc.notes) = Len(ChordDefs[loc.ret.quality])

\* C20 witness: the diminished choice made a seventh is dmin7dim5, spread in
\* four notes.
C20_Witness ==
    /\ pc = "spread_done"
    /\ loc.pick = <<11, "d">>
    /\ ~loc.override_use_root
    /\ loc.seventh
    /\ loc.ret.quality = "dmin7dim5"
    /\ Len(loc.notes) = 4

(***************************************************************************)
(* Claims on the render flags of Piece                                     *)
(***************************************************************************)
\* Lines 422-450: the track numbers of the enabled tracks (Chords is track 1,
\* Bass track 2, Melody track 0).
EnabledTracks(e) ==
    (IF e.render_chords THEN {1} ELSE {})
        \cup (IF e.render_bass THEN {2} ELSE {})
        \cup (IF e.render_melody THEN {0} ELSE {})

\* C21: for every combination of render_chords, render_bass and
\* render_melody, generate does not fail on the unbound local midi, a call
\* that has ended has re-randomized the shared stream last (its seed is not
\* left in force), and the container of a returned call holds exactly the
\* enabled tracks, once each.
C21_RenderFlags ==
    /\ env.err # "UnboundLocalError"
    /\ pc = "raised" =>
        /\ env.log # <<>>
        /\ env.log[Len(env.log)].op = "seed_none"
    /\ \A i \in 1..Len(obs.calls) :
        LET tracks == obs.calls[i].midi.tracks
        IN  /\ {tracks[k].track : k \in 1..Len(tracks)} = EnabledTracks(env)
            /\ Len(tracks) = Cardinality(EnabledTracks(env))

====
